---- MODULE Spec2Model ----
(***************************************************************************)
(* K-Stan Master (src/index.tsx): the question lifecycle of the App and    *)
(* GameSession components.                                                 *)
(*                                                                         *)
(* App owns currentMode and score.  GameSession is rendered only while     *)
(* currentMode is not "menu"; its useState cells (question, loading,       *)
(* selectedOption, isCorrect, streak) are created when it is mounted and   *)
(* are unreachable once it is unmounted.  The setters a pending            *)
(* loadQuestion holds belong to the instance that started it: they change  *)
(* nothing once that instance is gone.  `sid` numbers the mounted          *)
(* instances so that this binding is explicit.                             *)
(*                                                                         *)
(* An optional value (T | null) is a sequence of length 0 or 1.            *)
(***************************************************************************)
EXTENDS Naturals, Sequences, FiniteSets

VARIABLES
    currentMode,     \* App: useState<GameMode>(MENU)
    score,           \* App: useState(0)
    sid,             \* number of GameSession instances mounted so far
    question,        \* GameSession: Question | null
    loading,         \* GameSession: boolean
    selectedOption,  \* GameSession: string | null
    isCorrect,       \* GameSession: boolean | null
    streak,          \* GameSession: number
    nreq,            \* number of generateContent requests issued so far
    inflight,        \* requests awaiting the upstream service
    questionSrc,     \* history: the request whose response is in `question`
    op,              \* history: the last step taken
    pre              \* history: the state before the last step

vars == <<currentMode, score, sid, question, loading, selectedOption,
          isCorrect, streak, nreq, inflight, questionSrc, op, pre>>

\* Total number of loadQuestion calls explored in one run.
MaxFetches == 3

MENU == "menu"
PlayModes == {"song", "idol", "card"}

Null == <<>>
Some(x) == <<x>>

----------------------------------------------------------------------------
(* The upstream service.  A Question keeps the two fields the controller   *)
(* reads (options, correctAnswer); questionText, details and explanation   *)
(* are only rendered.  JSON.parse validates nothing, so the values the     *)
(* service may send include ones that break the schema's descriptions.     *)

QGood     == [options |-> <<"a", "b", "c", "d">>, correctAnswer |-> "a"]
QBlank    == [options |-> <<"", "b", "c", "d">>,  correctAnswer |-> "b"]
QThree    == [options |-> <<"a", "b", "c">>,      correctAnswer |-> "a"]
QUnlisted == [options |-> <<"a", "b", "c", "d">>, correctAnswer |-> "z"]

Questions == {QGood, QBlank, QThree, QUnlisted}

NoText  == [present |-> FALSE, parses |-> FALSE, value |-> Null]
Garbage == [present |-> TRUE,  parses |-> FALSE, value |-> Null]
Json(q) == [present |-> TRUE,  parses |-> TRUE,  value |-> Some(q)]

Texts == {NoText, Garbage} \cup {Json(q) : q \in Questions}

Responses == {[rejected |-> TRUE, text |-> NoText]}
             \cup {[rejected |-> FALSE, text |-> t] : t \in Texts}

\* JSON.parse(text): the parsed value, or Null when it throws.
JSONParse(text) == IF text.parses THEN text.value ELSE Null

\* fetchGameQuestion: the Question it resolves to, or Null when it throws
\* (request rejected, no text, text that does not parse).
fetchGameQuestion(resp) ==
    IF resp.rejected THEN Null
    ELSE IF ~resp.text.present THEN Null
    ELSE JSONParse(resp.text)

----------------------------------------------------------------------------
(* What GameSession renders.                                               *)

Mounted == currentMode # MENU

ShowsSpinner  == Mounted /\ loading
ShowsQuestion == Mounted /\ ~loading /\ question # Null
ShowsResult   == ShowsQuestion /\ isCorrect # Null
ShowsOptions  == ShowsQuestion /\ isCorrect = Null
\* Variant: the error view is chosen without looking at loading.
ShowsError_IgnoresLoading == Mounted /\ question = Null

ShowsError    == Mounted /\ ~loading /\ question = Null

\* JavaScript truthiness of a string | null: null and "" are falsy.
Truthy(s) == s # Null /\ s[1] # ""

\* Variant: the bonus is taken from the streak after the increment.
Points_PostIncrement(s) == 10 + ((s + 1) * 2)

\* updateScore(10 + (streak * 2))
Points(s) == 10 + (s * 2)

Snapshot == [currentMode |-> currentMode, score |-> score, sid |-> sid,
             question |-> question, loading |-> loading,
             selectedOption |-> selectedOption, isCorrect |-> isCorrect,
             streak |-> streak, nreq |-> nreq, inflight |-> inflight,
             questionSrc |-> questionSrc]

Step(name, arg) == /\ op' = [name |-> name, arg |-> arg]
                   /\ pre' = Snapshot

----------------------------------------------------------------------------
Init ==
    /\ currentMode = MENU
    /\ score = 0
    /\ sid = 0
    /\ question = Null
    /\ loading = TRUE
    /\ selectedOption = Null
    /\ isCorrect = Null
    /\ streak = 0
    /\ nreq = 0
    /\ inflight = {}
    /\ questionSrc = Null
    /\ op = [name |-> "init", arg |-> <<>>]
    /\ pre = Snapshot

\* Variant: setIsCorrect(null) is missing.
loadQuestion_KeepsCorrectness ==
    /\ nreq < MaxFetches
    /\ loading' = TRUE
    /\ question' = Null
    /\ selectedOption' = Null
    /\ UNCHANGED isCorrect
    /\ questionSrc' = Null
    /\ nreq' = nreq + 1
    /\ inflight' = inflight \cup
          {[rid |-> nreq + 1, sid |-> sid', mode |-> currentMode']}

\* Variant: setQuestion(null) is missing.
loadQuestion_KeepsQuestion ==
    /\ nreq < MaxFetches
    /\ loading' = TRUE
    /\ UNCHANGED <<question, questionSrc>>
    /\ selectedOption' = Null
    /\ isCorrect' = Null
    /\ nreq' = nreq + 1
    /\ inflight' = inflight \cup
          {[rid |-> nreq + 1, sid |-> sid', mode |-> currentMode']}

\* loadQuestion up to its await: the four setters, then the request is sent
\* for the mode and on behalf of the instance that is mounted after the step.
loadQuestion ==
    /\ nreq < MaxFetches
    /\ loading' = TRUE
    /\ question' = Null
    /\ selectedOption' = Null
    /\ isCorrect' = Null
    /\ questionSrc' = Null
    /\ nreq' = nreq + 1
    /\ inflight' = inflight \cup
          {[rid |-> nreq + 1, sid |-> sid', mode |-> currentMode']}

\* Variant: streak is held above GameSession and survives the mount.
selectMode_KeepsStreak(m) ==
    /\ currentMode = MENU
    /\ currentMode' = m
    /\ sid' = sid + 1
    /\ UNCHANGED streak
    /\ loadQuestion
    /\ UNCHANGED score
    /\ Step("selectMode", <<m>>)

\* A menu button: setCurrentMode(m) mounts a new GameSession, whose state
\* starts from the useState initial values and whose effect calls
\* loadQuestion.
selectMode(m) ==
    /\ currentMode = MENU
    /\ currentMode' = m
    /\ sid' = sid + 1
    /\ streak' = 0
    /\ loadQuestion
    /\ UNCHANGED score
    /\ Step("selectMode", <<m>>)

\* onBack: setCurrentMode(MENU).  The GameSession is unmounted; requests it
\* started are not cancelled.
goToMenu ==
    /\ Mounted
    /\ currentMode' = MENU
    /\ UNCHANGED <<score, sid, question, loading, selectedOption, isCorrect,
                   streak, nreq, inflight, questionSrc>>
    /\ Step("goToMenu", <<>>)

\* ResultView's onNext.
onNext ==
    /\ ShowsResult
    /\ UNCHANGED <<currentMode, score, sid, streak>>
    /\ loadQuestion
    /\ Step("onNext", <<>>)

\* The retry button of the error view.
retry ==
    /\ ShowsError
    /\ UNCHANGED <<currentMode, score, sid, streak>>
    /\ loadQuestion
    /\ Step("retry", <<>>)

\* handleAnswer(option) on the displayed question, a repeated invocation on
\* an already answered question (the double click its first line is there
\* for) included.
handleAnswer(option) ==
    /\ ShowsQuestion
    /\ IF Truthy(selectedOption)
         THEN UNCHANGED <<selectedOption, isCorrect, streak, score>>
         ELSE LET correct == (option = question[1].correctAnswer) IN
              /\ selectedOption' = Some(option)
              /\ isCorrect' = Some(correct)
              /\ IF correct
                   THEN /\ streak' = streak + 1
                        /\ score' = score + Points(streak)
                   ELSE /\ streak' = 0
                        /\ UNCHANGED score
    /\ UNCHANGED <<currentMode, sid, question, loading, nreq, inflight,
                   questionSrc>>
    /\ Step("handleAnswer", <<option>>)

\* Variant: the setters are shared by every instance.
Live_AnyInstance(req) == Mounted

\* The instance that issued req is still the mounted one.
Live(req) == Mounted /\ req.sid = sid

\* Variant: the catch block resets the streak.
respond_FailureResetsStreak(req, resp) ==
    /\ req \in inflight
    /\ inflight' = inflight \ {req}
    /\ IF Live(req)
         THEN LET q == fetchGameQuestion(resp) IN
              /\ loading' = FALSE
              /\ IF q # Null
                   THEN question' = q /\ questionSrc' = Some(req)
                        /\ UNCHANGED streak
                   ELSE UNCHANGED <<question, questionSrc>> /\ streak' = 0
         ELSE UNCHANGED <<loading, question, questionSrc, streak>>
    /\ UNCHANGED <<currentMode, score, sid, selectedOption, isCorrect, nreq>>
    /\ Step("respond", <<req, fetchGameQuestion(resp)>>)

\* Variant: setLoading(false) sits in the try block, not in finally.
respond_NoFinally(req, resp) ==
    /\ req \in inflight
    /\ inflight' = inflight \ {req}
    /\ IF Live(req)
         THEN LET q == fetchGameQuestion(resp) IN
              IF q # Null
                THEN loading' = FALSE /\ question' = q
                     /\ questionSrc' = Some(req)
                ELSE UNCHANGED <<loading, question, questionSrc>>
         ELSE UNCHANGED <<loading, question, questionSrc>>
    /\ UNCHANGED <<currentMode, score, sid, selectedOption, isCorrect,
                   streak, nreq>>
    /\ Step("respond", <<req, fetchGameQuestion(resp)>>)

\* The rest of loadQuestion: the awaited fetch settles with resp.  try:
\* setQuestion(q); catch: nothing; finally: setLoading(false).  The setters
\* act on the instance that started the load.
respond(req, resp) ==
    /\ req \in inflight
    /\ inflight' = inflight \ {req}
    /\ IF Live(req)
         THEN LET q == fetchGameQuestion(resp) IN
              /\ loading' = FALSE
              /\ IF q # Null
                   THEN question' = q /\ questionSrc' = Some(req)
                   ELSE UNCHANGED <<question, questionSrc>>
         ELSE UNCHANGED <<loading, question, questionSrc>>
    /\ UNCHANGED <<currentMode, score, sid, selectedOption, isCorrect,
                   streak, nreq>>
    /\ Step("respond", <<req, fetchGameQuestion(resp)>>)

Next ==
    \/ \E m \in PlayModes : selectMode(m)
    \/ goToMenu
    \/ onNext
    \/ retry
    \/ \E i \in 1..4 : /\ question # Null
                       /\ i <= Len(question[1].options)
                       /\ handleAnswer(question[1].options[i])
    \/ \E req \in inflight, resp \in Responses : respond(req, resp)

Spec == Init /\ [][Next]_vars

----------------------------------------------------------------------------
(* Properties.  In a state reached by a step, op names the step and pre    *)
(* holds the state it was taken from.                                      *)

Range(f) == {f[i] : i \in 1..Len(f)}

\* The request a "respond" step settled, and what the fetch resolved to.
ArrivedReq == op.arg[1]
ArrivedQ   == op.arg[2]
ArrivedLive == pre.currentMode # MENU /\ ArrivedReq.sid = pre.sid

PreShowsError == pre.currentMode # MENU /\ ~pre.loading /\ pre.question = Null

\* C1: an answer given to a question that has no answer yet scores
\* 10 + 2 * (streak before) and raises the streak by one when it equals
\* correctAnswer; otherwise it resets the streak to 0 and scores nothing.
C1_StreakBonus ==
    (op.name = "handleAnswer" /\ pre.selectedOption = Null /\ pre.isCorrect = Null)
    => IF op.arg[1] = question[1].correctAnswer
         THEN streak = pre.streak + 1 /\ score = pre.score + 10 + 2 * pre.streak
         ELSE streak = 0 /\ score = pre.score

\* Second correct answer in a row: +12 on top of +10, streak 2.
C1_Witness ==
    /\ op.name = "handleAnswer"
    /\ pre.selectedOption = Null
    /\ pre.streak = 1 /\ streak = 2
    /\ pre.score = 10 /\ score = 22

\* ... followed by an incorrect answer: +0, streak 0.
C1_WitnessReset ==
    /\ op.name = "handleAnswer"
    /\ pre.selectedOption = Null
    /\ pre.streak = 2 /\ streak = 0 /\ score = 22

\* C2: handleAnswer on a question that already has an answer changes none of
\* selectedOption, isCorrect, streak and score.
C2_Idempotent ==
    (op.name = "handleAnswer" /\ pre.selectedOption # Null)
    => /\ selectedOption = pre.selectedOption
       /\ isCorrect = pre.isCorrect
       /\ streak = pre.streak
       /\ score = pre.score

\* C3: in a mounted session selectedOption and isCorrect are both null or
\* both set, and both are null right after loadQuestion starts.
C3_SelectionPaired ==
    /\ Mounted => (selectedOption = Null <=> isCorrect = Null)
    /\ op.name \in {"selectMode", "onNext", "retry"}
         => selectedOption = Null /\ isCorrect = Null

\* A next-question load that clears a recorded answer.
C3_Witness ==
    /\ op.name = "onNext"
    /\ pre.selectedOption # Null /\ pre.isCorrect # Null
    /\ selectedOption = Null

\* C4: when the live session's load ends, it shows either the error view or
\* an unanswered question with exactly 4 options, one of them correctAnswer.
C4_WellFormedOrError ==
    (op.name = "respond" /\ ArrivedLive)
    => \/ ShowsError
       \/ /\ ShowsOptions
          /\ Len(question[1].options) = 4
          /\ question[1].correctAnswer \in Range(question[1].options)

\* C5 as stated: at most one request is outstanding.
C5_SingleRequest == Cardinality(inflight) <= 1

\* C5 amended: at most one outstanding request belongs to the mounted
\* session (requests of sessions left through the menu remain outstanding).
C5_SingleLiveRequest ==
    Cardinality({r \in inflight : Live(r)}) <= 1

\* Two requests outstanding, one of them the mounted session's.
C5_Witness ==
    /\ Cardinality(inflight) >= 2
    /\ \E r \in inflight : Live(r)

\* C6: the start and the end of a load, successful or failed, leave score
\* and streak as they were (for the load run by a mount: as the mount set
\* them); score changes only in handleAnswer, streak only in handleAnswer or
\* a mount, and no handleAnswer runs while a load is pending.
C6_LoadKeepsScore ==
    /\ op.name \in {"onNext", "retry", "respond"}
         => score = pre.score /\ streak = pre.streak
    /\ op.name = "selectMode" => score = pre.score /\ streak = 0
    /\ score # pre.score => op.name = "handleAnswer"
    /\ streak # pre.streak => op.name \in {"handleAnswer", "selectMode"}
    /\ op.name = "handleAnswer" => ~pre.loading

\* A failed load ends in a session that holds points and a streak.
C6_Witness ==
    /\ op.name = "respond" /\ ArrivedLive /\ ArrivedQ = Null
    /\ streak > 0 /\ score > 0

\* C7 as stated: going to the menu and selecting a mode leave score and
\* streak unchanged.
C7_ScoreStreakPersist ==
    op.name \in {"goToMenu", "selectMode"}
    => score = pre.score /\ streak = pre.streak

\* C7 amended: both steps leave score unchanged; selecting a mode starts a
\* session whose streak is 0.
C7_ScorePersistsStreakRestarts ==
    /\ op.name \in {"goToMenu", "selectMode"} => score = pre.score
    /\ op.name = "selectMode" => streak = 0

\* A mode is entered after a session that ended with a streak.
C7_Witness ==
    /\ op.name = "selectMode"
    /\ pre.streak > 0 /\ score > 0

\* C8: selecting a mode shows the spinner with no question and issues a new
\* request for that mode on behalf of the new session; a displayed question
\* always comes from a request of the mounted session.
C8_SelectModeLoads ==
    /\ op.name = "selectMode"
         => /\ currentMode = op.arg[1]
            /\ ShowsSpinner /\ question = Null
            /\ nreq = pre.nreq + 1
            /\ inflight = pre.inflight
                 \cup {[rid |-> nreq, sid |-> sid, mode |-> currentMode]}
    /\ (Mounted /\ question # Null)
         => questionSrc # Null /\ questionSrc[1].sid = sid

\* The mode just left, in which a question had been received, is re-entered.
C8_Witness ==
    /\ op.name = "selectMode"
    /\ pre.question # Null
    /\ pre.questionSrc # Null /\ pre.questionSrc[1].mode = currentMode

\* C9: a failed fetch leaves the live session in the error view with nothing
\* selected and no request of its own outstanding; from the error view a
\* request is issued only by retry, which issues exactly one, for the same
\* mode.
C9_FailureNeedsRetry ==
    /\ (op.name = "respond" /\ ArrivedLive /\ ArrivedQ = Null)
         => /\ ShowsError
            /\ selectedOption = Null /\ isCorrect = Null
            /\ \A r \in inflight : ~Live(r)
    /\ (PreShowsError /\ nreq # pre.nreq) => op.name = "retry"
    /\ op.name = "retry"
         => /\ PreShowsError
            /\ currentMode = pre.currentMode
            /\ nreq = pre.nreq + 1
            /\ inflight = pre.inflight
                 \cup {[rid |-> nreq, sid |-> sid, mode |-> currentMode]}

\* A fetch of the mounted session has just failed.
C9_Witness ==
    /\ op.name = "respond" /\ ArrivedLive /\ ArrivedQ = Null
    /\ ShowsError

\* C10: a displayed question is the response to a request the mounted
\* session issued for the current mode, and a response to a request of a
\* session that is no longer mounted changes none of question, loading,
\* selectedOption and isCorrect.
C10_StaleResponseIgnored ==
    /\ (Mounted /\ question # Null)
         => /\ questionSrc # Null
            /\ questionSrc[1].sid = sid
            /\ questionSrc[1].mode = currentMode
    /\ (op.name = "respond" /\ ~ArrivedLive)
         => /\ question = pre.question
            /\ loading = pre.loading
            /\ selectedOption = pre.selectedOption
            /\ isCorrect = pre.isCorrect

\* A question arrives for a session that was left, while a later session in
\* another mode is still loading.
C10_Witness ==
    /\ op.name = "respond" /\ ~ArrivedLive /\ ArrivedQ # Null
    /\ Mounted /\ loading
    /\ ArrivedReq.mode # currentMode

====
